---- MODULE Spec2Model ----
(***************************************************************************)
(* GraphAlgorithmsLab: the Graph class, dijkstra, bellman_ford,            *)
(* restore_path and compare_algorithms_on_graph of graph_algorithms.h      *)
(* (src/src/main.cpp, lines 266-892).                                      *)
(*                                                                         *)
(* Weights are double in the source; the model uses small integers, on     *)
(* which double arithmetic is exact, so the tolerance 1e-6 of the          *)
(* comparisons separates exactly the unequal values.                       *)
(***************************************************************************)
EXTENDS Integers, Sequences, FiniteSets

\* ------------------------------------------------------------------ bounds
\* largest vertex count of a graph under Spec and SpecGraph
MaxN == 3
\* largest number of accepted add_edge calls while a graph is built (Spec)
MaxEdges == 3
\* largest number of accepted add_edge calls under SpecGraph
MaxCalls == 2
\* largest length of a free-standing parent array (SpecPath)
MaxPathN == 4

\* largest vertex count handed to generate_random_graph (SpecGen)
GenMaxN == 3
\* prob_dist(gen) is drawn from [0,1): the model draws k / DrawScale for
\* k in 0 .. DrawScale - 1, so a draw can be exactly 0 and is never 1
DrawScale == 2

\* edge weights offered to add_edge under Spec
Weights == {-2, -1, 0, 1, 4}
\* edge weights offered to add_edge under SpecGraph
ApiWeights == {-1, 2}

\* edge weights offered to add_edge before a graph is saved (SpecFile); the
\* second has seven significant digits
FileWeights == {2, 1234567}
\* edge_probability offered to generate_random_graph, in units of
\* 1 / DrawScale: below 0, 0, a middle value, 1, above 1
Probabilities == {-1, 0, DrawScale \div 2, DrawScale, DrawScale + 1}
\* <<min_w, max_w>> offered to generate_random_graph: in order, swapped,
\* and equal
WeightBounds == {<<1, 2>>, <<2, 1>>, <<4, 4>>}

\* ------------------------------------------------------------------ types
\* constexpr Weight INF = numeric_limits<Weight>::infinity(): a value above
\* every finite distance the bounded model can produce.
INF == 1000000
\* the "no parent" sentinel written by dijkstra and bellman_ford
NONE == -1

Min2(a, b) == IF a < b THEN a ELSE b

\* ------------------------------------------------------------------ state
VARIABLES
    n_,         \* Graph::n_
    directed_,  \* Graph::directed_
    adj_,       \* Graph::adj_ : vertex -> sequence of Edge{to, weight}
    threw,      \* the last call raised std::out_of_range
    added,      \* how many add_edge calls returned normally
    accepted,   \* the add_edge calls that returned normally, in call order
    pc,         \* "build" | "compared" | "array" | "path" | "generated"
                \* | "saved" | "loaded"
    source,     \* the source vertex handed to both algorithms
    res_d,      \* result of dijkstra(g, source)
    res_b,      \* result of bellman_ford(g, source)
    records,    \* the BenchmarkRecords of compare_algorithms_on_graph
    trace,      \* what the two algorithms did: queue traffic, edge list, passes
    parentArg,  \* the parent array handed to restore_path
    pathArgs,   \* <<source, target>> handed to restore_path
    path,       \* outcome of restore_path
    gen_p,      \* edge_probability handed to generate_random_graph
    file,       \* the text file written by save_graph_to_file
    loaded      \* outcome of load_graph_from_file on that file

vars == <<n_, directed_, adj_, threw, added, accepted, pc, source, res_d, res_b,
          records, trace, parentArg, pathArgs, path, gen_p, file, loaded>>

graphVars == <<n_, directed_, adj_>>
resultVars == <<source, res_d, res_b, records, trace>>
pathVars == <<parentArg, pathArgs, path>>
ioVars == <<gen_p, file, loaded>>

\* the Graph object as a value
G == [n |-> n_, directed |-> directed_, adj |-> adj_]

\* Graph(int n, bool directed): n empty adjacency lists
NewGraph(n, directed) ==
    [n |-> n, directed |-> directed, adj |-> [i \in 0 .. n - 1 |-> <<>>]]

\* ------------------------------------------------------------------ Graph
\* the endpoint check of add_edge
EndpointsInvalid(g, u, v) == u < 0 \/ v < 0 \/ u >= g.n \/ v >= g.n

\* adj_[u].Append(Edge{v, w})
AppendEdge(adj, u, v, w) ==
    [adj EXCEPT ![u] = Append(@, [to |-> v, weight |-> w])]

\* add_edge mirroring self-loops too
AddEdgeMirrorLoops(g, u, v, w) ==
    IF EndpointsInvalid(g, u, v)
    THEN [threw |-> TRUE, adj |-> g.adj]
    ELSE LET a1 == AppendEdge(g.adj, u, v, w)
         IN  [threw |-> FALSE,
              adj |-> IF ~g.directed THEN AppendEdge(a1, v, u, w) ELSE a1]

\* add_edge appending to the list of u before v is validated
AddEdgeLateCheck(g, u, v, w) ==
    IF u < 0 \/ u >= g.n
    THEN [threw |-> TRUE, adj |-> g.adj]
    ELSE LET a1 == AppendEdge(g.adj, u, v, w)
         IN  IF v < 0 \/ v >= g.n
             THEN [threw |-> TRUE, adj |-> a1]
             ELSE [threw |-> FALSE,
                   adj |-> IF ~g.directed /\ u # v
                           THEN AppendEdge(a1, v, u, w) ELSE a1]

\* Graph::add_edge(u, v, w): the outcome (raised or not) and the new adj_
GraphAddEdge(g, u, v, w) ==
    IF EndpointsInvalid(g, u, v)
    THEN [threw |-> TRUE, adj |-> g.adj]
    ELSE LET a1 == AppendEdge(g.adj, u, v, w)
         IN  [threw |-> FALSE,
              adj |-> IF ~g.directed /\ u # v
                      THEN AppendEdge(a1, v, u, w) ELSE a1]

\* the list of u holds an entry to v
HasEntry(adj, u, v) == \E k \in 1 .. Len(adj[u]) : adj[u][k].to = v

RECURSIVE SumLengths(_, _)
\* adj_[0].GetLength() + ... + adj_[k-1].GetLength()
SumLengths(adj, k) ==
    IF k = 0 THEN 0 ELSE SumLengths(adj, k - 1) + Len(adj[k - 1])

\* edge_count without the halving of undirected graphs
EdgeCountNoHalving(g) == SumLengths(g.adj, g.n)

\* Graph::edge_count()
EdgeCount(g) ==
    LET m == SumLengths(g.adj, g.n)
    IN  IF ~g.directed THEN m \div 2 ELSE m

\* ------------------------------------------------------- priority queue
\* HashTablePriorityQueue<Vertex, Weight>: the entries in the queue, each an
\* element with its priority; an element may be queued several times.
PQEmpty == <<>>

\* IsEmpty()
PQIsEmpty(pq) == Len(pq) = 0

\* Enqueue(item, priority): inserts unconditionally
PQEnqueue(pq, item, priority) ==
    Append(pq, [item |-> item, priority |-> priority])

\* the entries Dequeue() may return: those of minimum priority (ties are
\* broken arbitrarily)
PQDequeueChoices(pq) ==
    {i \in 1 .. Len(pq) : \A j \in 1 .. Len(pq) : pq[i].priority <= pq[j].priority}

\* the queue after Dequeue() removed entry i
PQRemove(pq, i) == SubSeq(pq, 1, i - 1) \o SubSeq(pq, i + 1, Len(pq))

\* --------------------------------------------------------------- dijkstra
\* ShortestPathResult(n) after the initialising loop: all INF, all -1
EmptyResult(n) ==
    [dist |-> [i \in 0 .. n - 1 |-> INF],
     parent |-> [i \in 0 .. n - 1 |-> NONE],
     has_negative_cycle |-> FALSE]

\* no edge is skipped for its weight
SkipsNoEdge(e) == FALSE

\* if (e.weight < 0) continue;
DijkstraSkipsEdge(e) == e.weight < 0

\* no vertex is ever taken as finalized
NeverFinalized(st, u) == FALSE

\* if (used.Get(u)) continue;
DijkstraFinalized(st, u) == st.used[u]

\* a relaxation that only ever sets a distance once
ImprovesFirstOnly(nd, cur) == cur = INF

\* a relaxation that also accepts an equal distance
ImprovesOrEqual(nd, cur) == nd <= cur

\* if (nd < cur)
DijkstraImproves(nd, cur) == nd < cur

RECURSIVE DijkstraRelax(_, _, _, _)
\* the inner while over the edges leaving u, from the k-th on
DijkstraRelax(st, u, neigh, k) ==
    IF k > Len(neigh) THEN st
    ELSE LET e == neigh[k]
             du == st.dist[u]
             nd == du + e.weight
             cur == st.dist[e.to]
         IN  IF DijkstraSkipsEdge(e) THEN DijkstraRelax(st, u, neigh, k + 1)
             ELSE IF du = INF THEN DijkstraRelax(st, u, neigh, k + 1)
             ELSE IF DijkstraImproves(nd, cur)
                  THEN DijkstraRelax(
                         [st EXCEPT !.dist[e.to] = nd,
                                    !.parent[e.to] = u,
                                    !.pq = PQEnqueue(@, e.to, nd),
                                    !.enqueues = @ + 1],
                         u, neigh, k + 1)
                  ELSE DijkstraRelax(st, u, neigh, k + 1)

\* one iteration of while (!pq.IsEmpty()), Dequeue() returning entry i
DijkstraIteration(st, g, i) ==
    LET u == st.pq[i].item
        st1 == [st EXCEPT !.pq = PQRemove(@, i)]
    IN  IF u < 0 \/ u >= g.n THEN st1
        ELSE IF DijkstraFinalized(st1, u) THEN st1
        ELSE DijkstraRelax([st1 EXCEPT !.used[u] = TRUE, !.scans[u] = @ + 1],
                           u, g.adj[u], 1)

RECURSIVE DijkstraLoop(_, _)
\* while (!pq.IsEmpty()) ...: every final state the tie-breaking allows
DijkstraLoop(st, g) ==
    IF PQIsEmpty(st.pq) THEN {st}
    ELSE UNION {DijkstraLoop(DijkstraIteration(st, g, i), g) :
                    i \in PQDequeueChoices(st.pq)}

\* the runs of dijkstra(g, source): the state each one ends in. Besides the
\* variables of the function, a state counts the Enqueue calls (enqueues)
\* and, per vertex, how often its outgoing edges were walked (scans).
DijkstraRuns(g, src) ==
    LET res0 == EmptyResult(g.n)
        none == [dist |-> res0.dist, parent |-> res0.parent,
                 used |-> [i \in 0 .. g.n - 1 |-> FALSE],
                 pq |-> PQEmpty, enqueues |-> 0,
                 scans |-> [i \in 0 .. g.n - 1 |-> 0]]
    IN  IF src < 0 \/ src >= g.n THEN {none}
        ELSE DijkstraLoop([none EXCEPT !.dist[src] = 0,
                                       !.pq = PQEnqueue(PQEmpty, src, 0),
                                       !.enqueues = 1], g)

\* the ShortestPathResult a run returns
DijkstraResult(st) ==
    [dist |-> st.dist, parent |-> st.parent, has_negative_cycle |-> FALSE]

\* dijkstra(g, source): the results it can return
dijkstra(g, src) == {DijkstraResult(st) : st \in DijkstraRuns(g, src)}

\* ----------------------------------------------------------- bellman_ford
RECURSIVE FlattenFrom(_, _)
\* the adjacency entries of vertices u, u+1, ..., n-1 as BFEdge{u, v, w}
FlattenFrom(g, u) ==
    IF u >= g.n THEN <<>>
    ELSE [k \in 1 .. Len(g.adj[u]) |->
             [u |-> u, v |-> g.adj[u][k].to, w |-> g.adj[u][k].weight]]
         \o FlattenFrom(g, u + 1)

\* the edge list built by lines 501-516: m = g.edge_count() slots, filled
\* in vertex order while idx < m
BFEdgeList(g) ==
    LET all == FlattenFrom(g, 0)
        m == EdgeCount(g)
    IN  SubSeq(all, 1, Min2(m, Len(all)))

\* if (du != INF && du + e.w < res.dist.Get(e.v))
BFCanRelax(dist, e) == dist[e.u] # INF /\ dist[e.u] + e.w < dist[e.v]

RECURSIVE BFPass(_, _, _)
\* one pass over the edges from the j-th on; st carries dist, parent, changed
BFPass(st, edges, j) ==
    IF j > Len(edges) THEN st
    ELSE LET e == edges[j]
         IN  IF BFCanRelax(st.dist, e)
             THEN BFPass([st EXCEPT !.dist[e.v] = st.dist[e.u] + e.w,
                                    !.parent[e.v] = e.u,
                                    !.changed = TRUE],
                         edges, j + 1)
             ELSE BFPass(st, edges, j + 1)

\* a pass limit one short
BFPassLimitShort(n) == n - 2

\* for (int i = 0; i < n - 1; ++i)
BFPassLimit(n) == n - 1

\* the loop is left after its first pass, whatever that pass did
BFStopsAfterFirst(r) == TRUE

\* if (!changed) break;
BFStopsEarly(r) == ~r.changed

RECURSIVE BFPasses(_, _, _, _)
\* the passes i, i+1, ... of the main loop, with its early exit; passes
\* counts the passes made
BFPasses(st, edges, i, n) ==
    IF i >= BFPassLimit(n) THEN st
    ELSE LET r == BFPass([st EXCEPT !.changed = FALSE, !.passes = @ + 1],
                         edges, 1)
         IN  IF BFStopsEarly(r) THEN r ELSE BFPasses(r, edges, i + 1, n)

\* the final pass: some edge can still be relaxed
BFDetectsCycle(dist, edges) ==
    \E j \in 1 .. Len(edges) : BFCanRelax(dist, edges[j])

\* the run of bellman_ford(g, source): the result, the edge list it built
\* and the number of passes of its main loop
BellmanFordRun(g, src) ==
    LET res0 == EmptyResult(g.n)
    IN  IF src < 0 \/ src >= g.n
        THEN [dist |-> res0.dist, parent |-> res0.parent,
              has_negative_cycle |-> FALSE, edges |-> <<>>, passes |-> 0]
        ELSE LET edges == BFEdgeList(g)
                 st == BFPasses([dist |-> [res0.dist EXCEPT ![src] = 0],
                                 parent |-> res0.parent,
                                 changed |-> FALSE, passes |-> 0],
                                edges, 0, g.n)
             IN  [dist |-> st.dist, parent |-> st.parent,
                  has_negative_cycle |-> BFDetectsCycle(st.dist, edges),
                  edges |-> edges, passes |-> st.passes]

\* bellman_ford(g, source)
bellman_ford(g, src) ==
    LET run == BellmanFordRun(g, src)
    IN  [dist |-> run.dist, parent |-> run.parent,
         has_negative_cycle |-> run.has_negative_cycle]

\* ----------------------------------------------------------- restore_path
\* parent.GetSize()
GetSize(arr) == Cardinality(DOMAIN arr)

\* the walk handed back as it was collected, target first
Unreversed(rev) == rev

RECURSIVE Reverse(_)
\* path[i] = rev[len - 1 - i]
Reverse(rev) ==
    IF Len(rev) = 0 THEN <<>>
    ELSE Append(Reverse(SubSeq(rev, 2, Len(rev))), rev[1])

RECURSIVE RestoreWalk(_, _, _, _)
\* for (v = target; v != -1; v = parent.Get(v)) { rev.Set(len, v); ++len;
\* if (v == source) break; } with rev of size n. A walk that has filled rev
\* and has met neither source nor -1 is on a cycle of parent: rev.Set(n, v)
\* is an access outside the array, and whatever DynamicArray does with it
\* (an exception, a write outside the buffer) the loop has no way left to
\* end normally; "out_of_range" stands for all of these outcomes.
RestoreWalk(v, rev, src, parent) ==
    IF v = NONE THEN [status |-> "ok", rev |-> rev]
    ELSE IF Len(rev) >= GetSize(parent)
         THEN [status |-> "out_of_range", rev |-> rev]
         ELSE LET rev1 == Append(rev, v)
              IN  IF v = src THEN [status |-> "ok", rev |-> rev1]
                  ELSE RestoreWalk(parent[v], rev1, src, parent)

\* the early return taken for every parentless target
RestoreEarlyEmptyNoSource(src, target, parent) == parent[target] = NONE

\* if (parent.Get(target) == -1 && target != source) return path;
RestoreEarlyEmpty(src, target, parent) ==
    parent[target] = NONE /\ target # src

\* restore_path(source, target, parent): how the call ends and what it returns
restore_path(src, target, parent) ==
    IF target < 0 \/ target >= GetSize(parent)
    THEN [status |-> "ok", path |-> <<>>]
    ELSE IF RestoreEarlyEmpty(src, target, parent)
    THEN [status |-> "ok", path |-> <<>>]
    ELSE LET w == RestoreWalk(target, <<>>, src, parent)
         IN  IF w.status # "ok" THEN [status |-> w.status, path |-> <<>>]
             ELSE IF Len(w.rev) = 0 \/ w.rev[Len(w.rev)] # src
                  THEN [status |-> "ok", path |-> <<>>]
                  ELSE [status |-> "ok", path |-> Reverse(w.rev)]

\* ------------------------------------------- compare_algorithms_on_graph
Abs(x) == IF x < 0 THEN -x ELSE x

\* a cross-validation that looks at finite Dijkstra distances only
DistancesSameFiniteOnly(d1, d2) ==
    IF GetSize(d1) = GetSize(d2)
    THEN \A i \in 0 .. GetSize(d1) - 1 :
            ~(d1[i] # INF /\ Abs(d1[i] - d2[i]) > 0)
    ELSE FALSE

\* the cross-validation of lines 734-751; on integer distances
\* abs(a - b) > 1e-6 is abs(a - b) > 0
DistancesSame(d1, d2) ==
    IF GetSize(d1) = GetSize(d2)
    THEN \A i \in 0 .. GetSize(d1) - 1 :
            /\ (d1[i] = INF) = (d2[i] = INF)
            /\ ~(d1[i] # INF /\ Abs(d1[i] - d2[i]) > 0)
    ELSE FALSE

\* the two BenchmarkRecords (time_ms left out: it is read from the clock)
BenchmarkRecords(g, rd, rb) ==
    << [vertices |-> g.n, edges |-> EdgeCount(g), algorithm |-> "Dijkstra",
        ok |-> GetSize(rd.dist) > 0],
       [vertices |-> g.n, edges |-> EdgeCount(g), algorithm |-> "Bellman-Ford",
        ok |-> ~rb.has_negative_cycle /\ DistancesSame(rd.dist, rb.dist)] >>

\* ---------------------------------------------------------- Graph::resize
\* resize(n): the lists of the retained vertices are copied as they are,
\* new vertices get empty lists
GraphResize(g, n) ==
    IF n = g.n THEN g
    ELSE [g EXCEPT !.n = n,
                   !.adj = [i \in 0 .. n - 1 |->
                               IF i < g.n THEN g.adj[i] ELSE <<>>]]

\* ------------------------------------------------- generate_random_graph
\* the values w_dist(gen) can return: reals of [lo, hi), here its integers
WeightDraws(lo, hi) == IF lo = hi THEN {lo} ELSE lo .. hi - 1

\* the values prob_dist(gen) can return, in units of 1 / DrawScale
ProbDraws == 0 .. DrawScale - 1

\* a pair loop that passes over the self-pairs only
GenSkipsSelfPairsOnly(u, v, directed) == u = v

\* if (!directed && v <= u) continue; if (u == v) continue;
GenSkipsPair(u, v, directed) == (~directed /\ v <= u) \/ u = v

\* if (prob_dist(gen) <= edge_probability)
GenAccepts(draw, p) == draw <= p

\* what one iteration can do: no edge, or an edge of a drawn weight
\* (w_dist is drawn only after the test passed)
GenOutcomes(p, lo, hi) ==
    {IF GenAccepts(draw, p) THEN [add |-> TRUE, w |-> w]
                            ELSE [add |-> FALSE, w |-> lo] :
        draw \in ProbDraws, w \in WeightDraws(lo, hi)}

RECURSIVE GenPairs(_, _, _, _, _)
\* the double loop from its k-th iteration on (u = k div n, v = k mod n):
\* S holds the graphs the draws made so far can have produced
GenPairs(S, k, p, lo, hi) ==
    LET n == (CHOOSE g \in S : TRUE).n
        u == k \div n
        v == k % n
    IN  IF S = {} \/ n = 0 \/ k >= n * n THEN S
        ELSE IF GenSkipsPair(u, v, (CHOOSE g \in S : TRUE).directed)
             THEN GenPairs(S, k + 1, p, lo, hi)
             ELSE GenPairs(
                    {IF o.add
                     THEN [g EXCEPT !.adj = GraphAddEdge(g, u, v, o.w).adj]
                     ELSE g :
                        g \in S, o \in GenOutcomes(p, lo, hi)},
                    k + 1, p, lo, hi)

\* generate_random_graph(n, edge_probability, min_w, max_w, directed): it
\* throws std::invalid_argument, or returns one of these graphs
generate_random_graph(n, p, min_w, max_w, directed) ==
    IF n < 0 \/ p < 0 \/ p > DrawScale
    THEN [threw |-> TRUE, graphs |-> {}]
    ELSE [threw |-> FALSE,
          graphs |-> GenPairs({NewGraph(n, directed)}, 0, p,
                              Min2(min_w, max_w),
                              IF min_w > max_w THEN min_w ELSE max_w)]

\* ------------------------------- save_graph_to_file, load_graph_from_file
RECURSIVE SigScale(_)
\* the power of ten that leaves six digits of x
SigScale(x) == IF x < 1000000 THEN 1 ELSE 10 * SigScale(x \div 10)

\* out << e.weight followed by in >> w: the stream writes six significant
\* digits, reading the text back gives the rounded number
FormatWeight(w) ==
    LET a == Abs(w)
        sc == SigScale(a)
        r == ((a + sc \div 2) \div sc) * sc
    IN  IF w < 0 THEN -r ELSE r

\* if (!g.is_directed() && u > e.to) continue;
SaveSkipsEntry(g, e) == ~g.directed /\ e.u > e.v

RECURSIVE SaveLines(_, _, _)
\* the edge lines written for the adjacency entries from the k-th on
SaveLines(g, all, k) ==
    IF k > Len(all) THEN <<>>
    ELSE IF SaveSkipsEntry(g, all[k]) THEN SaveLines(g, all, k + 1)
    ELSE <<[u |-> all[k].u, v |-> all[k].v, w |-> FormatWeight(all[k].w)]>>
         \o SaveLines(g, all, k + 1)

\* save_graph_to_file(g, filename): the header "n m directed", then the lines
save_graph_to_file(g) ==
    [n |-> g.n, m |-> EdgeCount(g),
     directed |-> IF g.directed THEN 1 ELSE 0,
     lines |-> SaveLines(g, FlattenFrom(g, 0), 1)]

RECURSIVE LoadEdges(_, _, _)
\* the reading loop from its i-th iteration on (i counted from 1)
LoadEdges(tmp, f, i) ==
    IF i > f.m THEN [status |-> "ok", g |-> tmp]
    ELSE IF i > Len(f.lines) THEN [status |-> "failed", g |-> tmp]
    ELSE LET r == GraphAddEdge(tmp, f.lines[i].u, f.lines[i].v, f.lines[i].w)
         IN  IF r.threw THEN [status |-> "threw", g |-> tmp]
             ELSE LoadEdges([tmp EXCEPT !.adj = r.adj], f, i + 1)

\* load_graph_from_file(g, filename) on a default-constructed g: g is
\* assigned only when all m lines were read
load_graph_from_file(f) ==
    LET r == LoadEdges(NewGraph(f.n, f.directed # 0), f, 1)
        g == IF r.status = "ok" THEN r.g ELSE NewGraph(0, TRUE)
    IN  [status |-> r.status, n |-> g.n, directed |-> g.directed,
         adj |-> g.adj]

\* ------------------------------------------------------------------ Init
NoPath == [status |-> "ok", path |-> <<>>]
\* nothing has been run, written or read yet
NoTrace == [enqueues |-> 0, scans |-> <<>>, queue |-> <<>>, edges |-> <<>>,
            passes |-> 0]
NoFile == [n |-> 0, m |-> 0, directed |-> 0, lines |-> <<>>]
NotLoaded == [status |-> "none", n |-> 0, directed |-> TRUE, adj |-> <<>>]

\* a freshly constructed Graph(n, directed); nothing has been run
Init ==
    /\ n_ \in 0 .. MaxN
    /\ directed_ \in BOOLEAN
    /\ adj_ = NewGraph(n_, directed_).adj
    /\ threw = FALSE
    /\ added = 0
    /\ accepted = <<>>
    /\ pc = "build"
    /\ source = NONE
    /\ res_d = EmptyResult(0)
    /\ res_b = EmptyResult(0)
    /\ records = <<>>
    /\ trace = NoTrace
    /\ parentArg = <<>>
    /\ pathArgs = <<>>
    /\ path = NoPath
    /\ gen_p = NONE
    /\ file = NoFile
    /\ loaded = NotLoaded

\* --------------------------------------------------------------- actions
\* g.add_edge(u, v, w) while a graph is built (the loop of main, case 1):
\* the graph changes as add_edge says, the loop counter advances only when
\* the call returned. Spec offers it endpoints in [0,n); calls with other
\* endpoints are the subject of SpecGraph.
BuildEdge(u, v, w) ==
    /\ pc = "build"
    /\ EndpointsInvalid(G, u, v) \/ added < MaxEdges
    /\ LET r == GraphAddEdge(G, u, v, w)
       IN  /\ adj_' = r.adj
           /\ threw' = r.threw
           /\ added' = IF r.threw THEN added ELSE added + 1
    /\ UNCHANGED <<n_, directed_, accepted, pc, resultVars, pathVars, ioVars>>

\* the same call, with the accepted calls written down in order
AddEdgeCall(u, v, w) ==
    /\ pc = "build"
    /\ EndpointsInvalid(G, u, v) \/ added < MaxCalls
    /\ LET r == GraphAddEdge(G, u, v, w)
       IN  /\ adj_' = r.adj
           /\ threw' = r.threw
           /\ added' = IF r.threw THEN added ELSE added + 1
           /\ accepted' = IF r.threw THEN accepted
                          ELSE Append(accepted, [u |-> u, v |-> v, w |-> w])
    /\ UNCHANGED <<n_, directed_, pc, resultVars, pathVars, ioVars>>

\* compare_algorithms_on_graph(g, s): both algorithms from the same source,
\* then the records
Compare(s) ==
    /\ pc = "build"
    /\ pc' = "compared"
    /\ source' = s
    /\ \E st \in DijkstraRuns(G, s) :
          /\ res_d' = DijkstraResult(st)
          /\ res_b' = bellman_ford(G, s)
          /\ trace' = [enqueues |-> st.enqueues, scans |-> st.scans,
                       queue |-> st.pq,
                       edges |-> BellmanFordRun(G, s).edges,
                       passes |-> BellmanFordRun(G, s).passes]
    /\ records' = BenchmarkRecords(G, res_d', res_b')
    /\ threw' = FALSE
    /\ UNCHANGED <<graphVars, added, accepted, pathVars, ioVars>>

\* restore_path(s, t, res.parent) on the result of one of the algorithms
\* (main, cases 5 and 6)
RestorePath(which, t) ==
    /\ pc = "compared"
    /\ pc' = "path"
    /\ parentArg' = IF which = "dijkstra" THEN res_d.parent ELSE res_b.parent
    /\ pathArgs' = <<source, t>>
    /\ path' = restore_path(source, t, parentArg')
    /\ UNCHANGED <<graphVars, threw, added, accepted, resultVars, ioVars>>

BuildEdgeStep ==
    \E u \in 0 .. n_ - 1, v \in 0 .. n_ - 1, w \in Weights : BuildEdge(u, v, w)

AddEdgeCallStep ==
    \E u \in -1 .. n_, v \in -1 .. n_, w \in ApiWeights : AddEdgeCall(u, v, w)

CompareStep == \E s \in -1 .. n_ : Compare(s)

RestorePathStep ==
    \E which \in {"dijkstra", "bellman_ford"}, t \in -1 .. n_ :
        RestorePath(which, t)

Next == BuildEdgeStep \/ CompareStep \/ RestorePathStep

\* a graph is built with add_edge, both algorithms run on it, a path is
\* restored
Spec == Init /\ [][Next]_vars

NextGraph == AddEdgeCallStep

\* the Graph interface alone: any sequence of add_edge calls
SpecGraph == Init /\ [][NextGraph]_vars

\* ------------------------------------------------ restore_path alone
\* every parent array of a length up to MaxPathN, each entry -1 or a vertex
ParentArrays ==
    UNION {[0 .. n - 1 -> -1 .. n - 1] : n \in 0 .. MaxPathN}

InitPath ==
    /\ n_ = 0
    /\ directed_ = TRUE
    /\ adj_ = NewGraph(0, TRUE).adj
    /\ threw = FALSE
    /\ added = 0
    /\ accepted = <<>>
    /\ pc = "array"
    /\ source = NONE
    /\ res_d = EmptyResult(0)
    /\ res_b = EmptyResult(0)
    /\ records = <<>>
    /\ trace = NoTrace
    /\ parentArg \in ParentArrays
    /\ pathArgs = <<>>
    /\ path = NoPath
    /\ gen_p = NONE
    /\ file = NoFile
    /\ loaded = NotLoaded

\* restore_path(s, t, parent) on the array at hand; a further call with
\* other arguments
RestorePathCall(s, t) ==
    /\ pc \in {"array", "path"}
    /\ pc' = "path"
    /\ pathArgs' = <<s, t>>
    /\ path' = restore_path(s, t, parentArg)
    /\ UNCHANGED <<graphVars, threw, added, accepted, resultVars,
                   parentArg, ioVars>>

RestorePathCallStep ==
    \E s \in -1 .. GetSize(parentArg), t \in -1 .. GetSize(parentArg) :
        RestorePathCall(s, t)

NextPath == RestorePathCallStep

\* restore_path as a function of its arguments
SpecPath == InitPath /\ [][NextPath]_vars

\* ------------------------------------------- run_shortest_path_tests
\* Graph g(5, true) of the first test
FixtureN == 5

\* its six add_edge calls
Fixture ==
    << [u |-> 0, v |-> 1, w |-> 2], [u |-> 0, v |-> 2, w |-> 5],
       [u |-> 1, v |-> 2, w |-> 1], [u |-> 1, v |-> 3, w |-> 2],
       [u |-> 2, v |-> 3, w |-> 1], [u |-> 3, v |-> 4, w |-> 3] >>

InitTests ==
    /\ n_ = FixtureN
    /\ directed_ = TRUE
    /\ adj_ = NewGraph(FixtureN, TRUE).adj
    /\ threw = FALSE
    /\ added = 0
    /\ accepted = <<>>
    /\ pc = "build"
    /\ source = NONE
    /\ res_d = EmptyResult(0)
    /\ res_b = EmptyResult(0)
    /\ records = <<>>
    /\ trace = NoTrace
    /\ parentArg = <<>>
    /\ pathArgs = <<>>
    /\ path = NoPath
    /\ gen_p = NONE
    /\ file = NoFile
    /\ loaded = NotLoaded

\* one of the six add_edge calls of the test, each made once, in any order
FixtureEdge(k) ==
    /\ pc = "build"
    /\ ~HasEntry(adj_, Fixture[k].u, Fixture[k].v)
    /\ LET r == GraphAddEdge(G, Fixture[k].u, Fixture[k].v, Fixture[k].w)
       IN  /\ adj_' = r.adj
           /\ threw' = r.threw
           /\ added' = IF r.threw THEN added ELSE added + 1
    /\ UNCHANGED <<n_, directed_, accepted, pc, resultVars, pathVars, ioVars>>

FixtureEdgeStep == \E k \in 1 .. Len(Fixture) : FixtureEdge(k)

NextTests == FixtureEdgeStep \/ CompareStep \/ RestorePathStep

\* the graph of the first test, both algorithms, restore_path
SpecTests == InitTests /\ [][NextTests]_vars

\* --------------------------------------------------------- resize
\* g.resize(n) on the graph being built
Resize(n) ==
    /\ pc = "build"
    /\ n_' = GraphResize(G, n).n
    /\ adj_' = GraphResize(G, n).adj
    /\ threw' = FALSE
    /\ UNCHANGED <<directed_, added, accepted, pc, resultVars, pathVars,
                   ioVars>>

ResizeStep == \E n \in -1 .. MaxN : Resize(n)

NextResize == AddEdgeCallStep \/ ResizeStep

\* the Graph interface with resize: any sequence of add_edge and resize calls
SpecResize == Init /\ [][NextResize]_vars

\* ------------------------------------------- generate_random_graph (main)
\* Graph current_graph; of main
InitGen ==
    /\ n_ = 0
    /\ directed_ = TRUE
    /\ adj_ = NewGraph(0, TRUE).adj
    /\ threw = FALSE
    /\ added = 0
    /\ accepted = <<>>
    /\ pc = "build"
    /\ source = NONE
    /\ res_d = EmptyResult(0)
    /\ res_b = EmptyResult(0)
    /\ records = <<>>
    /\ trace = NoTrace
    /\ parentArg = <<>>
    /\ pathArgs = <<>>
    /\ path = NoPath
    /\ gen_p = NONE
    /\ file = NoFile
    /\ loaded = NotLoaded

\* current_graph = generate_random_graph(n, p, min_w, max_w, directed)
\* (main, case 3): the exception leaves current_graph as it was. The
\* function reads nothing of the graph it replaces, so one call is followed.
Generate(n, p, min_w, max_w, directed) ==
    /\ pc = "build"
    /\ gen_p' = p
    /\ LET out == generate_random_graph(n, p, min_w, max_w, directed)
       IN  IF out.threw
           THEN /\ threw' = TRUE
                /\ UNCHANGED <<graphVars, pc>>
           ELSE /\ threw' = FALSE
                /\ pc' = "generated"
                /\ \E g \in out.graphs :
                      /\ n_' = g.n
                      /\ directed_' = g.directed
                      /\ adj_' = g.adj
    /\ UNCHANGED <<added, accepted, resultVars, pathVars, file, loaded>>

GenerateStep ==
    \E n \in -1 .. GenMaxN, p \in Probabilities, b \in WeightBounds,
       directed \in BOOLEAN :
        Generate(n, p, b[1], b[2], directed)

NextGen == GenerateStep

\* a graph is generated
SpecGen == InitGen /\ [][NextGen]_vars

\* ------------------------------------------------------- save and load
\* save_graph_to_file(current_graph, filename)
Save ==
    /\ pc = "build"
    /\ pc' = "saved"
    /\ file' = save_graph_to_file(G)
    /\ threw' = FALSE
    /\ UNCHANGED <<graphVars, added, accepted, resultVars, pathVars, gen_p,
                   loaded>>

\* load_graph_from_file(g, filename) on the file just written, into a
\* second Graph object
Load ==
    /\ pc = "saved"
    /\ pc' = "loaded"
    /\ loaded' = load_graph_from_file(file)
    /\ threw' = (loaded'.status = "threw")
    /\ UNCHANGED <<graphVars, added, accepted, resultVars, pathVars, gen_p,
                   file>>

FileEdgeStep ==
    \E u \in 0 .. n_ - 1, v \in 0 .. n_ - 1, w \in FileWeights :
        AddEdgeCall(u, v, w)

NextFile == FileEdgeStep \/ Save \/ Load

\* a graph is built with add_edge, saved, and read back
SpecFile == Init /\ [][NextFile]_vars

\* ------------------------------------- bellman_ford on a larger graph
\* a freshly constructed graph of MaxN + 1 vertices, of one, or of none
InitPasses ==
    /\ n_ \in {0, 1, MaxN + 1}
    /\ directed_ \in BOOLEAN
    /\ adj_ = NewGraph(n_, directed_).adj
    /\ threw = FALSE
    /\ added = 0
    /\ accepted = <<>>
    /\ pc = "build"
    /\ source = NONE
    /\ res_d = EmptyResult(0)
    /\ res_b = EmptyResult(0)
    /\ records = <<>>
    /\ trace = NoTrace
    /\ parentArg = <<>>
    /\ pathArgs = <<>>
    /\ path = NoPath
    /\ gen_p = NONE
    /\ file = NoFile
    /\ loaded = NotLoaded

PassEdgeStep ==
    \E u \in 0 .. n_ - 1, v \in 0 .. n_ - 1, w \in ApiWeights :
        AddEdgeCall(u, v, w)

NextPasses == PassEdgeStep \/ CompareStep

\* up to MaxCalls edges on MaxN + 1 vertices, then both algorithms:
\* graphs on which the main loop of bellman_ford can stop between its
\* second and its last pass
SpecPasses == InitPasses /\ [][NextPasses]_vars

\* ------------------------------------------------- reference definitions
\* what the claims speak of, defined on the adjacency structure and
\* independently of the algorithms

\* the weights of the adjacency entries u -> v
EdgeWeights(g, u, v) ==
    {g.adj[u][k].weight : k \in {j \in 1 .. Len(g.adj[u]) : g.adj[u][j].to = v}}

HasEdge(g, u, v) == EdgeWeights(g, u, v) # {}

MinOf(S) == CHOOSE x \in S : \A y \in S : x <= y

\* the cheapest entry u -> v
CheapestEdge(g, u, v) == MinOf(EdgeWeights(g, u, v))

SeqRange(p) == {p[i] : i \in 1 .. Len(p)}

RECURSIVE SimplePathsExtending(_, _)
\* every path without a repeated vertex that extends the path p
SimplePathsExtending(g, p) ==
    {p} \cup UNION {SimplePathsExtending(g, Append(p, v)) :
                      v \in {x \in (0 .. g.n - 1) \ SeqRange(p) :
                                HasEdge(g, p[Len(p)], x)}}

\* the simple paths from s to t
SimplePaths(g, s, t) ==
    {p \in SimplePathsExtending(g, <<s>>) : p[Len(p)] = t}

RECURSIVE PathWeight(_, _)
\* the weight of the path p, taking the cheapest entry at each hop
PathWeight(g, p) ==
    IF Len(p) <= 1 THEN 0
    ELSE CheapestEdge(g, p[1], p[2]) + PathWeight(g, SubSeq(p, 2, Len(p)))

Reachable(g, s, t) == SimplePaths(g, s, t) # {}

\* the weight of a minimum-weight simple path from s to t, INF if none
ShortestWeight(g, s, t) ==
    IF ~Reachable(g, s, t) THEN INF
    ELSE MinOf({PathWeight(g, p) : p \in SimplePaths(g, s, t)})

\* a cycle of negative weight through v: a simple path from v to some u
\* and an entry u -> v closing it
NegativeCycleThrough(g, v) ==
    \E p \in SimplePathsExtending(g, <<v>>) :
        /\ HasEdge(g, p[Len(p)], v)
        /\ PathWeight(g, p) + CheapestEdge(g, p[Len(p)], v) < 0

NegativeCycleReachable(g, s) ==
    \E v \in 0 .. g.n - 1 : Reachable(g, s, v) /\ NegativeCycleThrough(g, v)

NonNegativeWeights(g) ==
    \A u \in 0 .. g.n - 1 : \A k \in 1 .. Len(g.adj[u]) : g.adj[u][k].weight >= 0

Ran == pc \in {"compared", "path"}
ValidSource == source >= 0 /\ source < n_

\* ------------------------------------------------------------------ C1
\* C1: on every graph with non-negative weights, directed or undirected,
\* and for every source, dijkstra and bellman_ford agree at every vertex:
\* both distances infinite, or both finite and equal.
C1_AlgorithmsAgree ==
    (Ran /\ NonNegativeWeights(G)) =>
        \A v \in 0 .. n_ - 1 :
            /\ (res_d.dist[v] = INF) = (res_b.dist[v] = INF)
            /\ res_d.dist[v] = res_b.dist[v]

\* ------------------------------------------------------------------ C2
\* C2: on every graph with non-negative weights and for every source in
\* [0,n), dijkstra returns at each vertex the weight of a minimum-weight
\* path from the source, and infinity exactly at the unreachable vertices.
C2_DijkstraShortest ==
    (Ran /\ NonNegativeWeights(G) /\ ValidSource) =>
        \A v \in 0 .. n_ - 1 :
            /\ res_d.dist[v] = ShortestWeight(G, source, v)
            /\ (res_d.dist[v] = INF) = ~Reachable(G, source, v)

\* dijkstra has run on a non-negative graph in which some vertex has a direct
\* edge from the source that is heavier than its shortest path, and another
\* vertex is unreachable
C2_Witness ==
    /\ Ran /\ NonNegativeWeights(G) /\ ValidSource
    /\ \E v \in 0 .. n_ - 1 :
          /\ HasEdge(G, source, v)
          /\ res_d.dist[v] < CheapestEdge(G, source, v)
    /\ \E v \in 0 .. n_ - 1 : res_d.dist[v] = INF

\* ------------------------------------------------------------------ C3
\* the graph of the test: 0->1 (1), 1->2 (-2), 0->2 (4), added in that order
C3_ExampleAdj ==
    [i \in 0 .. 2 |->
        IF i = 0 THEN << [to |-> 1, weight |-> 1], [to |-> 2, weight |-> 4] >>
        ELSE IF i = 1 THEN << [to |-> 2, weight |-> -2] >>
        ELSE <<>>]

\* C3: on every directed graph without a negative cycle reachable from the
\* source s in [0,n), bellman_ford reports no negative cycle and returns at
\* each vertex the weight of a minimum-weight path from s (infinity if
\* unreachable); the graph 0->1 (1), 1->2 (-2), 0->2 (4) from 0 gives
\* dist = [0, 1, -1].
C3_BellmanFordShortest ==
    /\ (Ran /\ directed_ /\ ValidSource /\ ~NegativeCycleReachable(G, source)) =>
          /\ ~res_b.has_negative_cycle
          /\ \A v \in 0 .. n_ - 1 : res_b.dist[v] = ShortestWeight(G, source, v)
    /\ (Ran /\ directed_ /\ n_ = 3 /\ adj_ = C3_ExampleAdj /\ source = 0) =>
          /\ ~res_b.has_negative_cycle
          /\ res_b.dist = [i \in 0 .. 2 |-> IF i = 0 THEN 0 ELSE IF i = 1 THEN 1 ELSE -1]

\* bellman_ford has run from 0 on the graph of the example
C3_Witness ==
    /\ Ran /\ directed_ /\ n_ = 3 /\ adj_ = C3_ExampleAdj /\ source = 0
    /\ res_b.dist[2] = -1

\* ------------------------------------------------------------------ C4
\* C4: on every graph, directed or undirected, and for every source in
\* [0,n), bellman_ford sets has_negative_cycle exactly when the adjacency
\* structure holds a negative-weight cycle reachable from the source.
C4_FlagIffNegativeCycle ==
    (Ran /\ ValidSource) =>
        (res_b.has_negative_cycle = NegativeCycleReachable(G, source))

\* ------------------------------------------------------------------ C5
InRange(x) == x >= 0 /\ x < n_

\* C5: add_edge(u, v, w) fails whenever u or v is outside [0,n), also for
\* n = 0, and a failed call leaves every adjacency list, the vertex count
\* and the directedness flag as they were, also on an undirected graph with
\* only one endpoint invalid.
\* Every call is either written down in accepted or has raised, so "a call
\* with an endpoint outside [0,n) fails" reads: every accepted call has both
\* endpoints inside.
C5_FailedAddEdge ==
    [][/\ \A i \in 1 .. Len(accepted') :
             InRange(accepted'[i].u) /\ InRange(accepted'[i].v)
       /\ threw' => (adj_' = adj_ /\ n_' = n_ /\ directed_' = directed_)]_vars

\* a call has failed on an undirected graph that already holds an edge
\* between two vertices
C5_Witness ==
    /\ threw /\ ~directed_ /\ added > 0
    /\ \E u \in 0 .. n_ - 1 : \E v \in (0 .. n_ - 1) \ {u} : HasEntry(adj_, u, v)

\* ------------------------------------------------------------------ C6
\* the accepted calls name pairwise different undirected edges, none a loop
DistinctSimpleEdges(calls) ==
    /\ \A i \in 1 .. Len(calls) : calls[i].u # calls[i].v
    /\ \A i \in 1 .. Len(calls) : \A j \in 1 .. Len(calls) :
          i # j => {calls[i].u, calls[i].v} # {calls[j].u, calls[j].v}

\* C6: on an undirected graph, after k distinct undirected edges (no
\* self-loops, no duplicates) were inserted with add_edge, in any order and
\* interleaved with failing calls, edge_count() equals k.
C6_EdgeCountIsK ==
    (~directed_ /\ DistinctSimpleEdges(accepted)) => EdgeCount(G) = Len(accepted)

\* two distinct undirected edges were inserted, and the last call failed
C6_Witness ==
    /\ ~directed_ /\ DistinctSimpleEdges(accepted) /\ Len(accepted) = 2 /\ threw
    /\ EdgeCount(G) = 2

\* ------------------------------------------------------------------ C7
\* how often the entry (to, weight) occurs in a list
CountEntries(list, to, weight) ==
    Cardinality({k \in 1 .. Len(list) : list[k] = [to |-> to, weight |-> weight]})

\* how often add_edge(u, v, w) was accepted
CountCalls(calls, u, v, w) ==
    Cardinality({i \in 1 .. Len(calls) : calls[i] = [u |-> u, v |-> v, w |-> w]})

\* C7: after any sequence of add_edge calls on an undirected graph, for all
\* u # v and every weight w the list of u holds (v, w) as often as the list
\* of v holds (u, w), and each add_edge(u, u, w) contributed exactly one
\* entry (u, w) to the list of u.
C7_Symmetric ==
    ~directed_ =>
        \A u \in 0 .. n_ - 1 : \A w \in ApiWeights :
            /\ \A v \in (0 .. n_ - 1) \ {u} :
                  CountEntries(adj_[u], v, w) = CountEntries(adj_[v], u, w)
            /\ CountEntries(adj_[u], u, w) = CountCalls(accepted, u, u, w)

\* an undirected graph that took a self-loop and an edge between two vertices
C7_Witness ==
    /\ ~directed_
    /\ \E i \in 1 .. Len(accepted) : accepted[i].u = accepted[i].v
    /\ \E i \in 1 .. Len(accepted) : accepted[i].u # accepted[i].v

\* ------------------------------------------------------------------ C8
RECURSIVE ChainReaches(_, _, _, _)
\* following parent from v for at most k steps arrives at s
ChainReaches(parent, v, s, k) ==
    IF v = s THEN TRUE
    ELSE IF v = NONE \/ k = 0 THEN FALSE
    ELSE ChainReaches(parent, parent[v], s, k - 1)

\* C8: for every parent array, the ones bellman_ford returns with
\* has_negative_cycle set included, and every source and target,
\* restore_path ends without raising an error, and returns the empty
\* sequence when target is out of range or the walk back from target does
\* not reach source.
C8_RestoreNeverFails ==
    pc = "path" =>
        /\ path.status = "ok"
        /\ LET s == pathArgs[1]
               t == pathArgs[2]
               n == GetSize(parentArg)
           IN  (t < 0 \/ t >= n \/ ~ChainReaches(parentArg, t, s, n)) =>
                   path.path = <<>>

\* ------------------------------------------------------------------ C9
\* all six edges of the test are in the graph
FixtureBuilt ==
    n_ = FixtureN /\ directed_ /\ added = Len(Fixture)

\* C9 as stated: on the graph of the test and source 0, restore_path(0, 4,
\* parent) yields [0,1,2,3,4] for the parent array of dijkstra and for that
\* of bellman_ford.
C9_PathThroughTwo ==
    (pc = "path" /\ FixtureBuilt /\ pathArgs = <<0, 4>>) =>
        path = [status |-> "ok", path |-> <<0, 1, 2, 3, 4>>]

\* C9 amended: on that graph and source 0, restore_path(0, 4, parent)
\* yields [0,1,3,4], a path of the minimum weight 7, for the parent array
\* of dijkstra and for that of bellman_ford: vertex 3 is first reached at
\* distance 4 from vertex 1, and the equally long way over vertex 2 does
\* not replace it.
C9_PathSkipsTwo ==
    (pc = "path" /\ FixtureBuilt /\ pathArgs = <<0, 4>>) =>
        /\ path = [status |-> "ok", path |-> <<0, 1, 3, 4>>]
        /\ res_d.dist[4] = 7 /\ res_b.dist[4] = 7
        /\ parentArg \in {res_d.parent, res_b.parent}

\* the path from 0 to 4 was restored on the test graph, from a parent array
\* that both algorithms returned
C9_Witness ==
    /\ pc = "path" /\ FixtureBuilt /\ pathArgs = <<0, 4>>
    /\ parentArg = res_d.parent /\ parentArg = res_b.parent
    /\ Len(path.path) = 4

\* ------------------------------------------------------------------ C10
\* C10: for every source s in [0,n) and every parent array of length n,
\* also one with parent[s] set, restore_path(s, s, parent) returns [s].
C10_SourceToItself ==
    (pc = "path" /\ pathArgs[1] = pathArgs[2]
       /\ pathArgs[1] >= 0 /\ pathArgs[1] < GetSize(parentArg)) =>
        path = [status |-> "ok", path |-> <<pathArgs[1]>>]

\* restore_path(s, s, parent) was called on an array whose parent[s] is a
\* vertex on a cycle through s
C10_Witness ==
    /\ pc = "path" /\ pathArgs[1] = pathArgs[2]
    /\ pathArgs[1] >= 0 /\ pathArgs[1] < GetSize(parentArg)
    /\ parentArg[pathArgs[1]] # NONE
    /\ parentArg[pathArgs[1]] # pathArgs[1]
    /\ path.path = <<pathArgs[1]>>

\* ------------------------------------------------------------------ C11
\* two vertices agree when both distances are infinite, or both are finite
\* and equal (within the tolerance, on integers)
AgreeAt(v) ==
    \/ res_d.dist[v] = INF /\ res_b.dist[v] = INF
    \/ /\ res_d.dist[v] # INF
       /\ res_b.dist[v] # INF
       /\ res_d.dist[v] = res_b.dist[v]

\* C11: compare_algorithms_on_graph returns two records, Dijkstra's first
\* and Bellman-Ford's second, both with the vertex and edge count of the
\* graph; Dijkstra's ok is n > 0, Bellman-Ford's ok is "no negative cycle
\* reported, and the distance vectors have one length and agree at every
\* vertex".
C11_Records ==
    Ran =>
        /\ Len(records) = 2
        /\ records[1].algorithm = "Dijkstra"
        /\ records[2].algorithm = "Bellman-Ford"
        /\ \A i \in 1 .. 2 :
              /\ records[i].vertices = n_
              /\ records[i].edges = EdgeCount(G)
        /\ records[1].ok <=> n_ > 0
        /\ records[2].ok <=>
              /\ ~res_b.has_negative_cycle
              /\ DOMAIN res_d.dist = DOMAIN res_b.dist
              /\ \A v \in DOMAIN res_d.dist : AgreeAt(v)

\* the algorithms disagree without a negative cycle being reported, at a
\* vertex Dijkstra calls unreachable: Dijkstra's record is ok,
\* Bellman-Ford's is not
C11_Witness ==
    /\ Ran
    /\ ValidSource
    /\ ~res_b.has_negative_cycle
    /\ \E v \in 0 .. n_ - 1 : res_d.dist[v] = INF /\ res_b.dist[v] # INF
    /\ records[1].ok
    /\ ~records[2].ok

\* ------------------------------------------------------------------ C12
NonNegativeEdge(e) == e.weight >= 0

\* the graph g with every negative-weight adjacency entry deleted
WithoutNegativeEdges(g) ==
    [g EXCEPT !.adj = [u \in 0 .. g.n - 1 |-> SelectSeq(g.adj[u], NonNegativeEdge)]]

\* C12: on every graph, negative weights included, and for every source in
\* [0,n), dijkstra returns the shortest-path distances and the unreachable
\* set of the graph without its negative-weight edges; a negative-weight
\* edge is never a parent edge, and the run is a run on the graph without
\* them, with the same number of enqueues.
C12_NegativeEdgesIgnored ==
    (Ran /\ ValidSource) =>
        LET H == WithoutNegativeEdges(G)
        IN  /\ \A v \in 0 .. n_ - 1 :
                  /\ res_d.dist[v] = ShortestWeight(H, source, v)
                  /\ (res_d.dist[v] = INF) = ~Reachable(H, source, v)
                  /\ res_d.parent[v] # NONE =>
                        \E w \in EdgeWeights(H, res_d.parent[v], v) :
                            res_d.dist[v] = res_d.dist[res_d.parent[v]] + w
            /\ \E st \in DijkstraRuns(H, source) :
                  /\ DijkstraResult(st) = res_d
                  /\ st.enqueues = trace.enqueues

\* dijkstra has run on a graph in which a negative-weight edge leaves a
\* vertex it reached and would have lowered the distance of its target, and
\* another negative-weight edge is the only way to a vertex
C12_Witness ==
    /\ Ran /\ ValidSource
    /\ \E u \in 0 .. n_ - 1, v \in 0 .. n_ - 1 :
          /\ HasEdge(G, u, v)
          /\ CheapestEdge(G, u, v) < 0
          /\ res_d.dist[u] # INF
          /\ res_d.dist[v] # INF
          /\ res_d.dist[u] + CheapestEdge(G, u, v) < res_d.dist[v]
    /\ \E v \in 0 .. n_ - 1 :
          /\ Reachable(G, source, v)
          /\ res_d.dist[v] = INF

\* ------------------------------------------------------------------ C13
Generated == pc = "generated" /\ ~threw

\* C13: generate_random_graph with edge probability 0 returns a graph
\* without edges, for every n >= 0, either directedness, any weight bounds
\* and every outcome of the draws.
C13_ProbabilityZeroNoEdges ==
    (Generated /\ gen_p = 0) =>
        /\ EdgeCount(G) = 0
        /\ \A u \in 0 .. n_ - 1 : adj_[u] = <<>>

\* ------------------------------------------------------------------ C14
\* how many adjacency entries u -> v there are
EntryCount(u, v) ==
    Cardinality({k \in 1 .. Len(adj_[u]) : adj_[u][k].to = v})

\* C14: generate_random_graph with edge probability 1 and directed = false
\* returns, for every n >= 0 and every outcome of the draws, an undirected
\* graph that holds every pair of distinct vertices exactly once and no
\* self-loop; edge_count() is n(n-1)/2.
C14_ProbabilityOneComplete ==
    (Generated /\ gen_p = DrawScale /\ ~directed_) =>
        /\ \A u \in 0 .. n_ - 1, v \in 0 .. n_ - 1 :
              EntryCount(u, v) = IF u = v THEN 0 ELSE 1
        /\ 2 * EdgeCount(G) = n_ * (n_ - 1)

\* an undirected graph on three vertices was generated with probability 1
C14_Witness ==
    /\ Generated
    /\ gen_p = DrawScale
    /\ ~directed_
    /\ n_ = 3
    /\ EdgeCount(G) = 3

\* ------------------------------------------------------------------ C15
\* C15: the edge list bellman_ford builds holds one entry (u, v, w) for
\* every adjacency entry (v, w) of every vertex u, on directed and on
\* undirected graphs, so no adjacency entry is missing from its passes.
C15_EdgeListComplete ==
    (Ran /\ ValidSource) =>
        /\ Len(trace.edges) = SumLengths(adj_, n_)
        /\ \A u \in 0 .. n_ - 1, v \in 0 .. n_ - 1, w \in Weights :
              CountCalls(trace.edges, u, v, w) = CountEntries(adj_[u], v, w)

\* ------------------------------------------------------------------ C16
\* C16: dijkstra terminates on every graph and source with its queue empty;
\* the outgoing edges of a vertex are walked at most once per call, however
\* often the vertex is dequeued, and at most 1 + (number of adjacency
\* entries) Enqueue calls are made.
C16_DijkstraBounded ==
    Ran =>
        /\ trace.queue = <<>>
        /\ \A v \in 0 .. n_ - 1 : trace.scans[v] <= 1
        /\ trace.enqueues <= 1 + SumLengths(adj_, n_)

\* dijkstra has run and made more Enqueue calls than it reached vertices:
\* some vertex was enqueued, and so dequeued, more than once
C16_Witness ==
    /\ Ran
    /\ ValidSource
    /\ trace.enqueues > Cardinality({v \in 0 .. n_ - 1 : res_d.dist[v] # INF})
    /\ \A v \in 0 .. n_ - 1 : res_d.dist[v] # INF => trace.scans[v] = 1

\* ------------------------------------------------------------------ C17
RECURSIVE BFAllPasses(_, _, _, _)
\* the passes i, i+1, ..., n-2 of a main loop without the early exit
BFAllPasses(st, edges, i, n) ==
    IF i >= n - 1 THEN st
    ELSE BFAllPasses(BFPass([st EXCEPT !.changed = FALSE, !.passes = @ + 1],
                            edges, 1),
                     edges, i + 1, n)

\* bellman_ford with that loop
BellmanFordAllPasses(g, src) ==
    LET res0 == EmptyResult(g.n)
    IN  IF src < 0 \/ src >= g.n THEN res0
        ELSE LET edges == BFEdgeList(g)
                 st == BFAllPasses([dist |-> [res0.dist EXCEPT ![src] = 0],
                                    parent |-> res0.parent,
                                    changed |-> FALSE, passes |-> 0],
                                   edges, 0, g.n)
             IN  [dist |-> st.dist, parent |-> st.parent,
                  has_negative_cycle |-> BFDetectsCycle(st.dist, edges)]

\* C17: bellman_ford makes at most n-1 relaxation passes, and its result
\* (dist, parent, has_negative_cycle) is that of the variant which always
\* makes all n-1 passes, for every graph and source.
C17_EarlyExitSame ==
    Ran =>
        /\ trace.passes <= (IF n_ >= 1 THEN n_ - 1 ELSE 0)
        /\ res_b = BellmanFordAllPasses(G, source)

\* bellman_ford left its loop early: a pass changed a distance, a later
\* pass changed none, and fewer than n-1 passes were made
C17_Witness ==
    /\ Ran
    /\ ValidSource
    /\ trace.passes >= 2
    /\ trace.passes < n_ - 1
    /\ \E v \in 0 .. n_ - 1 : v # source /\ res_b.dist[v] # INF

\* ------------------------------------------------------------------ C18
\* C18: a graph built by add_edge, saved and read back, comes back with the
\* same vertex count, the same directedness and, for every vertex, the
\* same multiset of (to, weight) entries (directed or undirected,
\* self-loops and parallel edges included); the m of the header is the
\* number of edge lines written.
C18_RoundTrip ==
    pc = "loaded" =>
        /\ file.m = Len(file.lines)
        /\ loaded.status = "ok"
        /\ loaded.n = n_
        /\ loaded.directed = directed_
        /\ \A u \in 0 .. n_ - 1, v \in 0 .. n_ - 1, w \in FileWeights :
              CountEntries(loaded.adj[u], v, w) = CountEntries(adj_[u], v, w)

\* ------------------------------------------------------------------ C19
\* C19: after any sequence of add_edge calls, failing ones included, and
\* resize calls, every adjacency entry of a vertex in [0,n) has its target
\* in [0,n) for the current n, so that dijkstra and bellman_ford index dist
\* and parent inside [0,n) only.
C19_TargetsInRange ==
    \A u \in 0 .. n_ - 1 : \A k \in 1 .. Len(adj_[u]) :
        adj_[u][k].to >= 0 /\ adj_[u][k].to < n_

\* ------------------------------------------------------------------ C20
\* the results the claim speaks of: dijkstra's, and bellman_ford's when it
\* reports no negative cycle
TrustedResults ==
    {res_d} \cup (IF res_b.has_negative_cycle THEN {} ELSE {res_b})

\* p leads from s to t along parent edges of res, without a repeated
\* vertex, and every hop adds the weight of an edge of the graph
ParentPath(p, s, t, res) ==
    /\ p[1] = s
    /\ p[Len(p)] = t
    /\ \A i \in 1 .. Len(p), j \in 1 .. Len(p) : p[i] = p[j] => i = j
    /\ \A i \in 1 .. Len(p) - 1 :
          /\ res.parent[p[i + 1]] = p[i]
          /\ \E w \in EdgeWeights(G, p[i], p[i + 1]) :
                res.dist[p[i + 1]] = res.dist[p[i]] + w

\* C20: for dijkstra's result, and for bellman_ford's result without a
\* negative cycle reported, from a source s in [0,n): parent[s] is none,
\* and for every target t restore_path(s, t, parent) is non-empty exactly
\* when dist[t] is finite; the path then starts at s, ends at t, repeats
\* no vertex, and every consecutive pair (a, b) has parent[b] = a and
\* dist[b] = dist[a] + w for an edge a -> b of weight w.
C20_PathsFollowParents ==
    (Ran /\ ValidSource) =>
        \A res \in TrustedResults :
            /\ res.parent[source] = NONE
            /\ (pc = "path" /\ parentArg = res.parent
                /\ pathArgs[2] >= 0 /\ pathArgs[2] < n_) =>
                  /\ path.status = "ok"
                  /\ (path.path # <<>>) <=> (res.dist[pathArgs[2]] # INF)
                  /\ path.path # <<>> =>
                        ParentPath(path.path, source, pathArgs[2], res)

\* restore_path returned a path of three vertices from a result of
\* bellman_ford without a negative cycle, over an edge of negative weight
C20_Witness ==
    /\ pc = "path"
    /\ ValidSource
    /\ ~res_b.has_negative_cycle
    /\ parentArg = res_b.parent
    /\ Len(path.path) = 3
    /\ path.path[1] = source
    /\ \E w \in EdgeWeights(G, path.path[2], path.path[3]) : w < 0
====
